---------------------------- MODULE Spec2Model ----------------------------
(***************************************************************************)
(* A model of package deviceid (src/deviceid.go): the Manager's            *)
(* GenerateDeviceID, GetDeviceIDPath, SaveDeviceID and VerifyDeviceID, and *)
(* the free function IsValidSHA256, over a small filesystem.               *)
(*                                                                         *)
(* Strings are sequences of byte values (Go strings are byte sequences);   *)
(* paths are sequences of path components.                                 *)
(***************************************************************************)
EXTENDS Integers, Sequences, FiniteSets, TLC

(***************************************************************************)
(* Bytes and strings                                                       *)
(***************************************************************************)

\* len(s) != 64 in IsValidSHA256; also 2 * sha256.Size.
IDLen == 64

\* A function over 1..n as a tuple (an evaluated sequence).
Tup(f) == SubSeq(f, 1, Len(f))

Repeat(c, n) == Tup([i \in 1..n |-> c])

\* The byte values of the characters the code names.
Ch0 == 48
Ch9 == 57
ChLa == 97
ChLf == 102

\* IsValidSHA256 with r > '0' for r >= '0'.
IsValidSHA256_NoZero(s) ==
    IF Len(s) # IDLen
    THEN FALSE
    ELSE \A i \in 1..Len(s) :
            \/ (s[i] > Ch0 /\ s[i] <= Ch9)
            \/ (s[i] >= ChLa /\ s[i] <= ChLf)

\* IsValidSHA256 that also takes the upper-case digits 'A'..'F'.
IsValidSHA256_AnyCase(s) ==
    IF Len(s) # IDLen
    THEN FALSE
    ELSE \A i \in 1..Len(s) :
            \/ (s[i] >= Ch0 /\ s[i] <= Ch9)
            \/ (s[i] >= ChLa /\ s[i] <= ChLf)
            \/ (s[i] >= 65 /\ s[i] <= 70)

\* IsValidSHA256 with r <= 'g' for r <= 'f'.
IsValidSHA256_ThroughG(s) ==
    IF Len(s) # IDLen
    THEN FALSE
    ELSE \A i \in 1..Len(s) :
            \/ (s[i] >= Ch0 /\ s[i] <= Ch9)
            \/ (s[i] >= ChLa /\ s[i] <= ChLf + 1)

\* IsValidSHA256 checks if a string is a valid SHA256 hash.
IsValidSHA256(s) ==
    IF Len(s) # IDLen
    THEN FALSE
    ELSE \A i \in 1..Len(s) :
            \/ (s[i] >= Ch0 /\ s[i] <= Ch9)
            \/ (s[i] >= ChLa /\ s[i] <= ChLf)

(***************************************************************************)
(* crypto/sha256                                                           *)
(***************************************************************************)

\* The w bits of n, most significant first. A 32-bit word is a sequence of 32 bits.
BitsOf(n, w) == SubSeq([i \in 1..w |-> (n \div (2 ^ (w - i))) % 2], 1, w)

\* The number a sequence of bits stands for.
RECURSIVE ValueOf(_)
ValueOf(bits) ==
    IF Len(bits) = 0 THEN 0
    ELSE 2 * ValueOf(SubSeq(bits, 1, Len(bits) - 1)) + bits[Len(bits)]

\* The word given by its two 16-bit halves.
Word(hl) == BitsOf(hl[1], 16) \o BitsOf(hl[2], 16)

Hi(w) == ValueOf(SubSeq(w, 1, 16))
Lo(w) == ValueOf(SubSeq(w, 17, 32))

Xor(a, b) == Tup([i \in 1..32 |-> (a[i] + b[i]) % 2])
And(a, b) == Tup([i \in 1..32 |-> a[i] * b[i]])
Not(a) == Tup([i \in 1..32 |-> 1 - a[i]])
RotR(a, n) == Tup([i \in 1..32 |-> a[((i - 1 - n + 32) % 32) + 1]])
ShR(a, n) == Tup([i \in 1..32 |-> IF i <= n THEN 0 ELSE a[i - n]])

\* Addition modulo 2^32 of a sequence of words.
RECURSIVE SumHi(_)
SumHi(ws) == IF ws = <<>> THEN 0 ELSE Hi(Head(ws)) + SumHi(Tail(ws))
RECURSIVE SumLo(_)
SumLo(ws) == IF ws = <<>> THEN 0 ELSE Lo(Head(ws)) + SumLo(Tail(ws))

Add(ws) ==
    LET lo == SumLo(ws)
        hi == SumHi(ws) + (lo \div 65536)
    IN  BitsOf(hi % 65536, 16) \o BitsOf(lo % 65536, 16)

\* The round constants of SHA-256 as pairs of 16-bit halves.
K == <<
      <<17034, 12184>>, <<28983, 17553>>, <<46528, 64463>>, <<59829, 56229>>,
      <<14678, 49755>>, <<23025, 4593>>, <<37439, 33444>>, <<43804, 24277>>,
      <<55303, 43672>>, <<4739, 23297>>, <<9265, 34238>>, <<21772, 32195>>,
      <<29374, 23924>>, <<32990, 45566>>, <<39900, 1703>>, <<49563, 61812>>,
      <<58523, 27073>>, <<61374, 18310>>, <<4033, 40390>>, <<9228, 41420>>,
      <<11753, 11375>>, <<19060, 33962>>, <<23728, 43484>>, <<30457, 35034>>,
      <<38974, 20818>>, <<43057, 50797>>, <<45059, 10184>>, <<48985, 32711>>,
      <<50912, 3059>>, <<54695, 37191>>, <<1738, 25425>>, <<5161, 10599>>,
      <<10167, 2693>>, <<11803, 8504>>, <<19756, 28156>>, <<21304, 3347>>,
      <<25866, 29524>>, <<30314, 2747>>, <<33218, 51502>>, <<37490, 11397>>,
      <<41663, 59553>>, <<43034, 26187>>, <<49739, 35696>>, <<51052, 20899>>,
      <<53650, 59417>>, <<54937, 1572>>, <<62478, 13701>>, <<4202, 41072>>,
      <<6564, 49430>>, <<7735, 27656>>, <<10056, 30540>>, <<13488, 48309>>,
      <<14620, 3251>>, <<20184, 43594>>, <<23452, 51791>>, <<26670, 28659>>,
      <<29839, 33518>>, <<30885, 25455>>, <<33992, 30740>>, <<36039, 520>>,
      <<37054, 65530>>, <<42064, 27883>>, <<48889, 41975>>, <<50801, 30962>>
     >>

\* The initial hash value of SHA-256 as pairs of 16-bit halves.
H0 == <<
      <<27145, 58983>>, <<47975, 44677>>, <<15470, 62322>>, <<42319, 62778>>,
      <<20750, 21119>>, <<39685, 26764>>, <<8067, 55723>>, <<23520, 52505>>
      >>

\* Padding: the message, 0x80, zeros up to 56 mod 64, the bit length in 8 bytes.
Pad(msg) ==
    LET n == Len(msg)
        z == (55 - n) % 64
        bitlen == 8 * n
    IN  msg \o <<128>> \o [i \in 1..z |-> 0]
            \o <<0, 0, 0, 0>>
            \o [i \in 1..4 |-> (bitlen \div (256 ^ (4 - i))) % 256]

\* The 16 big-endian words of block b (from 0) of the padded message.
BlockWords(p, b) ==
    [t \in 1..16 |->
        LET o == 64 * b + 4 * (t - 1)
        IN  BitsOf(p[o + 1], 8) \o BitsOf(p[o + 2], 8) \o BitsOf(p[o + 3], 8) \o BitsOf(p[o + 4], 8)]

SmallSigma0(x) == Xor(Xor(RotR(x, 7), RotR(x, 18)), ShR(x, 3))
SmallSigma1(x) == Xor(Xor(RotR(x, 17), RotR(x, 19)), ShR(x, 10))
BigSigma0(x) == Xor(Xor(RotR(x, 2), RotR(x, 13)), RotR(x, 22))
BigSigma1(x) == Xor(Xor(RotR(x, 6), RotR(x, 11)), RotR(x, 25))
ChF(x, y, z) == Xor(And(x, y), And(Not(x), z))
Maj(x, y, z) == Xor(Xor(And(x, y), And(x, z)), And(y, z))

\* The message schedule: 16 block words extended to 64.
RECURSIVE Schedule(_)
Schedule(w) ==
    IF Len(w) = 64 THEN w
    ELSE LET t == Len(w) + 1
         IN  Schedule(Append(w, Add(<<SmallSigma1(w[t - 2]), w[t - 7],
                                       SmallSigma0(w[t - 15]), w[t - 16]>>)))

\* One round of the compression function on the working variables a..h, given
\* the round's two temporary words.
RoundWith(s, t1, t2) ==
    <<Add(<<t1, t2>>), s[1], s[2], s[3], Add(<<s[4], t1>>), s[5], s[6], s[7]>>

Round(s, wt, kt) ==
    RoundWith(s,
              Add(<<s[8], BigSigma1(s[5]), ChF(s[5], s[6], s[7]), Word(kt), wt>>),
              Add(<<BigSigma0(s[1]), Maj(s[1], s[2], s[3])>>))

RECURSIVE Rounds(_, _, _)
Rounds(s, w, t) ==
    IF t > Len(w) \/ Len(s) = 0 THEN s
    ELSE Rounds(Round(s, w[t], K[t]), w, t + 1)

\* The hash state h with the working variables s of a block added in.
AddState(h, s) == Tup([i \in 1..8 |-> Add(<<h[i], s[i]>>)])

\* The hash state after blocks b, b+1, ... of the padded message p.
RECURSIVE Blocks(_, _, _)
Blocks(h, p, b) ==
    IF 64 * b >= Len(p) \/ Len(h) = 0 THEN h
    ELSE Blocks(AddState(h, Rounds(h, Schedule(BlockWords(p, b)), 1)), p, b + 1)

\* The bytes of the eight words of a hash state, big-endian.
StateBytes(h) ==
    Tup([i \in 1..32 |->
            ValueOf(SubSeq(h[((i - 1) \div 4) + 1],
                           8 * ((i - 1) % 4) + 1, 8 * ((i - 1) % 4) + 8))])

\* sha256.Sum256 as FIPS 180-4 defines it: the 32 bytes of the digest of msg.
SHA256(msg) == StateBytes(Blocks(Tup([i \in 1..8 |-> Word(H0[i])]), Pad(msg), 0))

(***************************************************************************)
(* encoding/hex                                                            *)
(***************************************************************************)

\* encoding/hex: hextable = "0123456789abcdef".
HexTable == <<48, 49, 50, 51, 52, 53, 54, 55, 56, 57, 97, 98, 99, 100, 101, 102>>

\* hex.EncodeToString with the digits "0123456789ABCDEF".
EncodeToString_Upper(bytes) ==
    Tup([i \in 1..(2 * Len(bytes)) |->
            LET b == bytes[(i + 1) \div 2]
                h == IF i % 2 = 1 THEN HexTable[(b \div 16) + 1] ELSE HexTable[(b % 16) + 1]
            IN  IF h >= 97 THEN h - 32 ELSE h])

\* hex.EncodeToString: two characters per byte, high nibble first.
EncodeToString(bytes) ==
    Tup([i \in 1..(2 * Len(bytes)) |->
            LET b == bytes[(i + 1) \div 2]
            IN  IF i % 2 = 1 THEN HexTable[(b \div 16) + 1] ELSE HexTable[(b % 16) + 1]])


(***************************************************************************)
(* Errors are chains of messages, outermost first, as fmt.Errorf("...: %w")*)
(* builds them; the nil error is the empty chain.                          *)
(***************************************************************************)

Nil == <<>>

Wrap(msg, err) == <<msg>> \o err

(***************************************************************************)
(* The platform probe and GenerateDeviceID                                 *)
(***************************************************************************)

\* Raw outputs of the platform command (cmd.Output()): "ab\n", "ab", "AB\n".
\* They differ only in a trailing newline or in case.
ProbeTexts == {<<97, 98, 10>>, <<97, 98>>, <<65, 66, 10>>}

\* What one run of the platform command gives: its output, or a failure.
ProbeRuns ==
    {[ok |-> TRUE, out |-> t] : t \in ProbeTexts} \cup {[ok |-> FALSE, out |-> <<>>]}

\* The digests of the probe texts, computed once.
Digests == [t \in ProbeTexts |-> SHA256(t)]

\* sha256.Sum256([]byte(info)).
Sum256(b) == Digests[b]

\* getSystemInfo that lower-cases the output of the platform command.
getSystemInfo_Lower(run) ==
    IF ~run.ok
    THEN [val |-> <<>>, err |-> Wrap("failed to get system info", <<"exec">>)]
    ELSE [val |-> Tup([i \in 1..Len(run.out) |->
                        IF run.out[i] >= 65 /\ run.out[i] <= 90
                        THEN run.out[i] + 32 ELSE run.out[i]]),
          err |-> Nil]

\* getSystemInfo: the output of the platform command as a string, unparsed.
getSystemInfo(run) ==
    IF ~run.ok
    THEN [val |-> <<>>, err |-> Wrap("failed to get system info", <<"exec">>)]
    ELSE [val |-> run.out, err |-> Nil]

\* GenerateDeviceID that runs the platform command again when it has failed.
GenerateDeviceID_Retry(run) ==
    LET info == getSystemInfo(run)
    IN  IF info.err # Nil
        THEN [id |-> <<>>, err |-> Wrap("failed to generate device ID", info.err),
              steps |-> <<"probe", "probe">>]
        ELSE [id |-> EncodeToString(Sum256(info.val)), err |-> Nil,
              steps |-> <<"probe", "hash">>]

\* GenerateDeviceID creates a new device ID based on system information.
GenerateDeviceID(run) ==
    LET info == getSystemInfo(run)
    IN  IF info.err # Nil
        THEN [id |-> <<>>, err |-> Wrap("failed to generate device ID", info.err),
              steps |-> <<"probe">>]
        ELSE [id |-> EncodeToString(Sum256(info.val)), err |-> Nil,
              steps |-> <<"probe", "hash">>]

(***************************************************************************)
(* Configuration and path resolution.  A path is a sequence of components; *)
(* the empty StorageDir is the empty sequence.                             *)
(***************************************************************************)

DefaultIDFileName == ".device_id"

\* filepath.Join of two paths: empty elements are ignored.
Join(a, b) == SelectSeq(a \o b, LAMBDA c : c # "")

\* filepath.Dir: all but the last component.
Dir(p) == IF Len(p) = 0 THEN p ELSE SubSeq(p, 1, Len(p) - 1)

Configs ==
    {[StorageDir |-> d, IDFileName |-> n] :
        d \in {<<>>, <<"tmp", "custom">>}, n \in {"", "my-id"}}

\* os.UserHomeDir(): the home directory, or an error.
Homes == {[ok |-> TRUE, dir |-> <<"home", "u">>], [ok |-> FALSE, dir |-> <<>>]}

\* NewManager creates a new device ID manager with the given configuration.
NewManager(config) ==
    IF config.IDFileName = ""
    THEN [config |-> [config EXCEPT !.IDFileName = DefaultIDFileName]]
    ELSE [config |-> config]

\* GetDeviceIDPath that asks for the home directory before it looks at StorageDir.
GetDeviceIDPath_HomeFirst(m, homedir) ==
    IF ~homedir.ok
    THEN [path |-> <<>>,
          err |-> Wrap("failed to get user home directory", <<"HOME not set">>),
          home |-> TRUE]
    ELSE IF m.config.StorageDir # <<>>
    THEN [path |-> Join(m.config.StorageDir, <<m.config.IDFileName>>), err |-> Nil,
          home |-> TRUE]
    ELSE [path |-> Join(Join(homedir.dir, <<".parity">>), <<m.config.IDFileName>>),
          err |-> Nil, home |-> TRUE]

\* GetDeviceIDPath returns the full path where the device ID file should be stored.
\* home: os.UserHomeDir() was called.
GetDeviceIDPath(m, homedir) ==
    IF m.config.StorageDir # <<>>
    THEN [path |-> Join(m.config.StorageDir, <<m.config.IDFileName>>), err |-> Nil,
          home |-> FALSE]
    ELSE IF ~homedir.ok
         THEN [path |-> <<>>,
               err |-> Wrap("failed to get user home directory", <<"HOME not set">>),
               home |-> TRUE]
         ELSE [path |-> Join(Join(homedir.dir, <<".parity">>), <<m.config.IDFileName>>),
               err |-> Nil, home |-> TRUE]


(***************************************************************************)
(* The filesystem: a node for every path the manager can resolve to, and   *)
(* for every directory above one.  The root always is a directory.         *)
(***************************************************************************)

Prefixes(p) == {SubSeq(p, 1, k) : k \in 1..Len(p)}

IDPaths ==
    {GetDeviceIDPath(NewManager(c), h).path : c \in Configs, h \in {x \in Homes : x.ok}}

FSNodes == UNION {Prefixes(p) : p \in IDPaths}

NoNode == [kind |-> "none", data |-> <<>>, r |-> FALSE, w |-> FALSE]

\* A directory; w: entries can be created in it.
DirNode(w) == [kind |-> "dir", data |-> <<>>, r |-> TRUE, w |-> w]

\* A regular file with its content; r, w: this process may read, write it.
FileNode(data, r, w) == [kind |-> "file", data |-> data, r |-> r, w |-> w]

Lookup(fs, p) == IF p = <<>> THEN DirNode(TRUE) ELSE fs[p]

Min(S) == CHOOSE x \in S : \A y \in S : x <= y

\* Resolving the directories above p: nil, ENOENT or ENOTDIR.
Traverse(fs, p) ==
    LET bad == {k \in 1..(Len(p) - 1) : fs[SubSeq(p, 1, k)].kind # "dir"}
    IN  IF bad = {} THEN Nil
        ELSE IF fs[SubSeq(p, 1, Min(bad))].kind = "none" THEN <<"ENOENT">>
        ELSE <<"ENOTDIR">>

\* os.ReadFile(path).
ReadFile(fs, p) ==
    LET n == Lookup(fs, p)
    IN  IF Traverse(fs, p) # Nil THEN [data |-> <<>>, err |-> Traverse(fs, p)]
        ELSE IF n.kind = "none" THEN [data |-> <<>>, err |-> <<"ENOENT">>]
        ELSE IF n.kind = "dir" THEN [data |-> <<>>, err |-> <<"EISDIR">>]
        ELSE IF ~n.r THEN [data |-> <<>>, err |-> <<"EACCES">>]
        ELSE [data |-> n.data, err |-> Nil]

\* os.IsNotExist that takes every error for a missing file.
IsNotExist_AnyErr(err) == err # Nil

\* os.IsNotExist(err).
IsNotExist(err) == err = <<"ENOENT">>

\* os.MkdirAll(dir, 0o700): creates dir and the missing directories above it.
RECURSIVE MkdirAll(_, _)
MkdirAll(fs, d) ==
    IF Lookup(fs, d).kind = "dir" THEN [fs |-> fs, err |-> Nil]
    ELSE IF Lookup(fs, d).kind = "file" THEN [fs |-> fs, err |-> <<"ENOTDIR">>]
    ELSE LET up == MkdirAll(fs, Dir(d))
         IN  IF up.err # Nil THEN up
             ELSE IF ~Lookup(up.fs, Dir(d)).w THEN [fs |-> up.fs, err |-> <<"EACCES">>]
             ELSE [fs |-> [up.fs EXCEPT ![d] = DirNode(TRUE)], err |-> Nil]

\* os.OpenFile without O_TRUNC: a file that is present keeps its content.
OpenFile_NoTrunc(fs, p) ==
    LET n == Lookup(fs, p)
    IN  IF Traverse(fs, p) # Nil THEN [fs |-> fs, err |-> Traverse(fs, p)]
        ELSE IF Lookup(fs, Dir(p)).kind # "dir" THEN [fs |-> fs, err |-> <<"ENOENT">>]
        ELSE IF n.kind = "dir" THEN [fs |-> fs, err |-> <<"EISDIR">>]
        ELSE IF n.kind = "none" THEN
                IF Lookup(fs, Dir(p)).w
                THEN [fs |-> [fs EXCEPT ![p] = FileNode(<<>>, TRUE, TRUE)], err |-> Nil]
                ELSE [fs |-> fs, err |-> <<"EACCES">>]
        ELSE IF ~n.w THEN [fs |-> fs, err |-> <<"EACCES">>]
        ELSE [fs |-> fs, err |-> Nil]

\* os.OpenFile(path, O_WRONLY|O_CREATE|O_TRUNC, 0o600): the file is created when
\* missing and emptied when present.
OpenFile(fs, p) ==
    LET n == Lookup(fs, p)
    IN  IF Traverse(fs, p) # Nil THEN [fs |-> fs, err |-> Traverse(fs, p)]
        ELSE IF Lookup(fs, Dir(p)).kind # "dir" THEN
                [fs |-> fs, err |-> IF Lookup(fs, Dir(p)).kind = "none"
                                    THEN <<"ENOENT">> ELSE <<"ENOTDIR">>]
        ELSE IF n.kind = "dir" THEN [fs |-> fs, err |-> <<"EISDIR">>]
        ELSE IF n.kind = "none" THEN
                IF Lookup(fs, Dir(p)).w
                THEN [fs |-> [fs EXCEPT ![p] = FileNode(<<>>, TRUE, TRUE)], err |-> Nil]
                ELSE [fs |-> fs, err |-> <<"EACCES">>]
        ELSE IF ~n.w THEN [fs |-> fs, err |-> <<"EACCES">>]
        ELSE [fs |-> [fs EXCEPT ![p].data = <<>>], err |-> Nil]

\* f.Write(data) that writes at the end of the file, as under O_APPEND.
FileWrite_Append(fs, p, data, n) ==
    [fs |-> [fs EXCEPT ![p].data = @ \o SubSeq(data, 1, n)],
     err |-> IF n < Len(data) THEN <<"ENOSPC">> ELSE Nil]

\* f.Write(data) on a file opened at offset 0, of which n bytes get written:
\* they replace the first n bytes of the file; fewer than len(data) is an error.
FileWrite(fs, p, data, n) ==
    LET old == fs[p].data
        new == SubSeq(data, 1, n) \o SubSeq(old, n + 1, Len(old))
    IN  [fs |-> [fs EXCEPT ![p].data = new],
         err |-> IF n < Len(data) THEN <<"ENOSPC">> ELSE Nil]

\* What can go wrong in one call besides what the filesystem's state decides:
\* the open fails (descriptors or inodes exhausted), the write stops after n
\* bytes (disk full), the close reports an error.
ShortWrites == {0, 1, IDLen - 1}

NoFault == [at |-> "none", n |-> 0]

Faults ==
    {NoFault, [at |-> "open", n |-> 0], [at |-> "close", n |-> 0]}
        \cup {[at |-> "write", n |-> k] : k \in ShortWrites}

\* os.WriteFile after f.Write: the file is closed, and the first error returned.
WriteClosed(wr, fault) ==
    [fs |-> wr.fs,
     err |-> IF wr.err # Nil THEN wr.err
             ELSE IF fault.at = "close" THEN <<"EIO">> ELSE Nil,
     steps |-> <<"open", "write", "close">>]

\* os.WriteFile after OpenFile, o being what the open gave.
WriteOpened(o, p, data, fault) ==
    IF o.err # Nil
    THEN [fs |-> o.fs, err |-> o.err, steps |-> <<"open">>]
    ELSE WriteClosed(FileWrite(o.fs, p, data,
                               IF fault.at = "write" /\ fault.n < Len(data)
                               THEN fault.n ELSE Len(data)),
                     fault)

\* os.WriteFile(path, data, 0o600): open, write, close.
WriteFile(fs, p, data, fault) ==
    IF fault.at = "open"
    THEN [fs |-> fs, err |-> <<"EMFILE">>, steps |-> <<"open">>]
    ELSE WriteOpened(OpenFile(fs, p), p, data, fault)

(***************************************************************************)
(* SaveDeviceID and VerifyDeviceID.  Each is a chain of operators, one per *)
(* step of the function, a step's result being the next one's argument.    *)
(***************************************************************************)

\* SaveDeviceID after os.WriteFile, wr being what the write gave.
SaveWritten(wr, deviceID) ==
    IF wr.err # Nil
    THEN [fs |-> wr.fs, err |-> Wrap("failed to write device ID", wr.err),
          steps |-> <<"validate", "path", "mkdir">> \o wr.steps, wrote |-> deviceID]
    ELSE [fs |-> wr.fs, err |-> Nil,
          steps |-> <<"validate", "path", "mkdir">> \o wr.steps, wrote |-> deviceID]

\* SaveInDir that writes the device ID with a newline after it.
SaveInDir_Newline(mk, path, deviceID, fault) ==
    IF mk.err # Nil
    THEN [fs |-> mk.fs, err |-> Wrap("failed to create directory", mk.err),
          steps |-> <<"validate", "path", "mkdir">>, wrote |-> <<>>]
    ELSE SaveWritten(WriteFile(mk.fs, path, deviceID \o <<10>>, fault), deviceID)

\* SaveInDir that reads the file back after it has written it.
SaveInDir_ReadBack(mk, path, deviceID, fault) ==
    IF mk.err # Nil
    THEN [fs |-> mk.fs, err |-> Wrap("failed to create directory", mk.err),
          steps |-> <<"validate", "path", "mkdir">>, wrote |-> <<>>]
    ELSE [SaveWritten(WriteFile(mk.fs, path, deviceID, fault), deviceID)
            EXCEPT !.steps = @ \o <<"read">>]

\* SaveDeviceID after os.MkdirAll, mk being what it gave.
SaveInDir(mk, path, deviceID, fault) ==
    IF mk.err # Nil
    THEN [fs |-> mk.fs, err |-> Wrap("failed to create directory", mk.err),
          steps |-> <<"validate", "path", "mkdir">>, wrote |-> <<>>]
    ELSE SaveWritten(WriteFile(mk.fs, path, deviceID, fault), deviceID)

\* SaveDeviceID after m.GetDeviceIDPath(), p being what it gave.
SaveAtPath(p, fs, deviceID, fault) ==
    IF p.err # Nil
    THEN [fs |-> fs, err |-> Wrap("failed to get device ID path", p.err),
          steps |-> <<"validate", "path">>, wrote |-> <<>>]
    ELSE SaveInDir(MkdirAll(fs, Dir(p.path)), p.path, deviceID, fault)

\* SaveDeviceID without the format check.
SaveDeviceID_NoCheck(m, homedir, fs, deviceID, fault) ==
    SaveAtPath(GetDeviceIDPath(m, homedir), fs, deviceID, fault)

\* SaveDeviceID stores the device ID in the configured location.
SaveDeviceID(m, homedir, fs, deviceID, fault) ==
    IF ~IsValidSHA256(deviceID)
    THEN [fs |-> fs, err |-> <<"invalid device ID format">>, steps |-> <<"validate">>,
          wrote |-> <<>>]
    ELSE SaveAtPath(GetDeviceIDPath(m, homedir), fs, deviceID, fault)

\* SavedNewID that returns the new ID whether or not it was saved.
SavedNewID_IgnoreErr(sv, newID, branch, done) ==
    [id |-> newID, err |-> Nil,
     fs |-> sv.fs, steps |-> done \o sv.steps, branch |-> branch, wrote |-> sv.wrote]

\* A regenerating branch of VerifyDeviceID after m.SaveDeviceID(newID).
SavedNewID(sv, newID, branch, done) ==
    IF sv.err # Nil
    THEN [id |-> <<>>, err |-> Wrap("failed to save new device ID", sv.err),
          fs |-> sv.fs, steps |-> done \o sv.steps, branch |-> branch,
          wrote |-> sv.wrote]
    ELSE [id |-> newID, err |-> Nil,
          fs |-> sv.fs, steps |-> done \o sv.steps, branch |-> branch,
          wrote |-> sv.wrote]

\* Regenerate that falls back on 64 zeros when the device ID cannot be generated.
Regenerate_Fallback(gen, m, homedir, fs, fault, branch, done) ==
    IF gen.err # Nil
    THEN SavedNewID(SaveDeviceID(m, homedir, fs, Repeat(Ch0, IDLen), fault),
                    Repeat(Ch0, IDLen), branch, done \o gen.steps)
    ELSE SavedNewID(SaveDeviceID(m, homedir, fs, gen.id, fault), gen.id, branch,
                    done \o gen.steps)

\* A regenerating branch of VerifyDeviceID after m.GenerateDeviceID().
Regenerate(gen, m, homedir, fs, fault, branch, done) ==
    IF gen.err # Nil
    THEN [id |-> <<>>, err |-> Wrap("failed to generate new device ID", gen.err),
          fs |-> fs, steps |-> done \o gen.steps, branch |-> branch, wrote |-> <<>>]
    ELSE SavedNewID(SaveDeviceID(m, homedir, fs, gen.id, fault), gen.id, branch,
                    done \o gen.steps)

\* VerifyRead that regenerates the ID even when the stored one is valid.
VerifyRead_Always(rd, m, homedir, fs, run, fault) ==
    IF rd.err # Nil
    THEN IF IsNotExist(rd.err)
         THEN Regenerate(GenerateDeviceID(run), m, homedir, fs, fault, "NoFile",
                         <<"path", "read">>)
         ELSE [id |-> <<>>, err |-> Wrap("failed to read device ID", rd.err),
               fs |-> fs, steps |-> <<"path", "read">>, branch |-> "ReadError",
               wrote |-> <<>>]
    ELSE Regenerate(GenerateDeviceID(run), m, homedir, fs, fault, "FileCorrupt",
                    <<"path", "read", "validate">>)

\* s without the newline or blank at its end.
TrimRight(s) ==
    IF Len(s) > 0 /\ s[Len(s)] \in {9, 10, 13, 32} THEN SubSeq(s, 1, Len(s) - 1) ELSE s

\* VerifyRead that drops a trailing newline or blank from the stored ID before
\* it validates it.
VerifyRead_Trim(rd, m, homedir, fs, run, fault) ==
    IF rd.err # Nil
    THEN IF IsNotExist(rd.err)
         THEN Regenerate(GenerateDeviceID(run), m, homedir, fs, fault, "NoFile",
                         <<"path", "read">>)
         ELSE [id |-> <<>>, err |-> Wrap("failed to read device ID", rd.err),
               fs |-> fs, steps |-> <<"path", "read">>, branch |-> "ReadError",
               wrote |-> <<>>]
    ELSE IF ~IsValidSHA256(TrimRight(rd.data))
    THEN Regenerate(GenerateDeviceID(run), m, homedir, fs, fault, "FileCorrupt",
                    <<"path", "read", "validate">>)
    ELSE [id |-> TrimRight(rd.data), err |-> Nil, fs |-> fs,
          steps |-> <<"path", "read", "validate">>, branch |-> "FileValid",
          wrote |-> <<>>]

\* VerifyDeviceID after os.ReadFile(path), rd being what the read gave.
VerifyRead(rd, m, homedir, fs, run, fault) ==
    IF rd.err # Nil
    THEN IF IsNotExist(rd.err)
         THEN Regenerate(GenerateDeviceID(run), m, homedir, fs, fault, "NoFile",
                         <<"path", "read">>)
         ELSE [id |-> <<>>, err |-> Wrap("failed to read device ID", rd.err),
               fs |-> fs, steps |-> <<"path", "read">>, branch |-> "ReadError",
               wrote |-> <<>>]
    ELSE IF ~IsValidSHA256(rd.data)
    THEN Regenerate(GenerateDeviceID(run), m, homedir, fs, fault, "FileCorrupt",
                    <<"path", "read", "validate">>)
    ELSE [id |-> rd.data, err |-> Nil, fs |-> fs,
          steps |-> <<"path", "read", "validate">>, branch |-> "FileValid",
          wrote |-> <<>>]

\* VerifyDeviceID after m.GetDeviceIDPath(), p being what it gave.
VerifyAtPath(p, m, homedir, fs, run, fault) ==
    IF p.err # Nil
    THEN [id |-> <<>>, err |-> Wrap("failed to get device ID path", p.err),
          fs |-> fs, steps |-> <<"path">>, branch |-> "PathError", wrote |-> <<>>]
    ELSE VerifyRead(ReadFile(fs, p.path), m, homedir, fs, run, fault)

\* VerifyDeviceID checks for an existing device ID and generates a new one if needed.
VerifyDeviceID(m, homedir, fs, run, fault) ==
    VerifyAtPath(GetDeviceIDPath(m, homedir), m, homedir, fs, run, fault)

(***************************************************************************)
(* The state machine: one manager, its environment, and one action per     *)
(* public operation.  last records the latest call and what it returned,   *)
(* pre the filesystem as that call found it.                               *)
(***************************************************************************)

VARIABLES m, homedir, fs, pre, last, verified, procs, generated

vars == <<m, homedir, fs, pre, last, verified, procs, generated>>

\* The identifiers of the probe texts.
IDs == {EncodeToString(Sum256(t)) : t \in ProbeTexts}

IDOf(t) == EncodeToString(Sum256(t))

Empty == <<>>
\* "not-a-hash"
NotAHash == <<110, 111, 116, 45, 97, 45, 104, 97, 115, 104>>
\* "abc"
Abc == <<97, 98, 99>>
Zeros64 == Repeat(Ch0, IDLen)
\* 64 times "A": hexadecimal, but upper case.
Upper64 == Repeat(65, IDLen)
\* 63 times "0", then "g".
WithG64 == Repeat(Ch0, IDLen - 1) \o <<103>>
Short63 == Repeat(Ch0, IDLen - 1)
WithNewline(s) == s \o <<10>>

\* What another party may leave in the identifier file.
Contents ==
    {Empty, NotAHash, Zeros64, Upper64, WithG64, Short63,
     IDOf(<<97, 98, 10>>), IDOf(<<97, 98>>), WithNewline(IDOf(<<97, 98, 10>>)),
     Zeros64 \o <<32>>}

\* The values callers pass to SaveDeviceID.
SaveArgs == {Abc, Zeros64, Upper64, IDOf(<<97, 98, 10>>), WithNewline(Zeros64)}

StorageDirs == {Dir(p) : p \in IDPaths}

\* Everything is missing but the directories above the storage directories.
Base ==
    [n \in FSNodes |-> IF n \in IDPaths \cup StorageDirs THEN NoNode ELSE DirNode(TRUE)]

\* The states another party can leave the storage directory and the file p in:
\* the directory missing (creatable or not), a regular file in its place, or
\* present with the file missing, a directory, or a regular file.
Layouts(p) ==
    LET d == Dir(p)
        u == Dir(d)
    IN  {[Base EXCEPT ![u] = DirNode(uw)] : uw \in BOOLEAN}
        \cup {[Base EXCEPT ![d] = FileNode(<<>>, TRUE, TRUE)]}
        \cup {[Base EXCEPT ![d] = DirNode(TRUE), ![p] = f] :
                f \in {NoNode, DirNode(TRUE)}
                        \cup {FileNode(c, TRUE, TRUE) : c \in Contents}
                        \cup {FileNode(c, rw[1], rw[2]) :
                                c \in {NotAHash, Zeros64},
                                rw \in {<<TRUE, FALSE>>, <<FALSE, TRUE>>}}}
        \cup {[Base EXCEPT ![d] = DirNode(FALSE), ![p] = f] :
                f \in {NoNode, FileNode(NotAHash, TRUE, TRUE)}}

\* The filesystems the manager mgr can be started on.
Worlds(mgr, h) ==
    IF GetDeviceIDPath(mgr, h).err = Nil
    THEN Layouts(GetDeviceIDPath(mgr, h).path)
    ELSE {Base}

NoCall ==
    [op |-> "none", arg |-> <<>>, id |-> <<>>, path |-> <<>>, err |-> Nil,
     steps |-> <<>>, branch |-> "", wrote |-> <<>>,
     run |-> [ok |-> FALSE, out |-> <<>>], fault |-> NoFault, valid |-> FALSE]

\* verified: the identifier the successful VerifyDeviceID calls have returned
\* since the file was last touched by a SaveDeviceID call or by another party,
\* how many such calls there were (counted up to MaxStreak), and the branch the
\* first of them took.
MaxStreak == 3

Unverified == [id |-> <<>>, n |-> 0, first |-> ""]

\* generated: for each probe text, the identifiers GenerateDeviceID has returned
\* for it and the manager it was first called on; kept in SpecGenerate only.
NotGenerated == [t \in ProbeTexts |-> [ids |-> {}, by |-> {}]]

\* The processes that call the manager's methods at the same time, on the same
\* path; in Spec there are none, the calls come one after the other.
NProcs == 2

Procs == 1..NProcs

NoProc ==
    [op |-> "none", arg |-> <<>>, pc |-> "done", branch |-> "", run |-> NoCall.run,
     data |-> <<>>, id |-> <<>>, err |-> Nil]

Init ==
    /\ m \in {NewManager(c) : c \in Configs}
    /\ homedir \in Homes
    /\ fs \in Worlds(m, homedir)
    /\ pre = fs
    /\ last = NoCall
    /\ verified = Unverified
    /\ procs = [p \in Procs |-> NoProc]
    /\ generated = NotGenerated

Has(steps, x) == \E i \in DOMAIN steps : steps[i] = x

\* The probe run a call met: none when the call did not run the probe.
RunMet(steps, run) == IF Has(steps, "probe") THEN run ELSE NoCall.run

\* The fault a call met: none when the call did not get to open the file.
FaultMet(steps, fault) == IF Has(steps, "open") THEN fault ELSE NoFault

\* A caller calls m.GenerateDeviceID().
CallGenerate ==
    \E run \in ProbeRuns :
        \E g \in {GenerateDeviceID(run)} :
            /\ last' = [NoCall EXCEPT !.op = "Generate", !.id = g.id, !.err = g.err,
                                      !.steps = g.steps, !.run = run]
            /\ pre' = fs
            /\ UNCHANGED <<generated, m, homedir, fs, verified, procs>>

\* A caller calls m.GetDeviceIDPath().
CallGetPath ==
    \E p \in {GetDeviceIDPath(m, homedir)} :
        /\ last' = [NoCall EXCEPT !.op = "GetPath", !.path = p.path, !.err = p.err,
                                  !.steps = IF p.home THEN <<"home", "path">>
                                            ELSE <<"path">>]
        /\ pre' = fs
        /\ UNCHANGED <<generated, m, homedir, fs, verified, procs>>

\* A caller calls m.SaveDeviceID(deviceID).
CallSave ==
    \E deviceID \in SaveArgs, fault \in Faults :
        \E s \in {SaveDeviceID(m, homedir, fs, deviceID, fault)} :
            /\ fs' = s.fs
            /\ last' = [NoCall EXCEPT !.op = "Save", !.arg = deviceID, !.err = s.err,
                                      !.steps = s.steps, !.wrote = s.wrote,
                                      !.fault = FaultMet(s.steps, fault)]
            /\ pre' = fs
            /\ verified' = Unverified
            /\ UNCHANGED <<generated, m, homedir, procs>>

\* A caller calls m.VerifyDeviceID().
CallVerify ==
    \E run \in ProbeRuns, fault \in Faults :
        \E v \in {VerifyDeviceID(m, homedir, fs, run, fault)} :
            /\ fs' = v.fs
            /\ last' = [NoCall EXCEPT !.op = "Verify", !.id = v.id, !.err = v.err,
                                      !.steps = v.steps, !.branch = v.branch,
                                      !.wrote = v.wrote,
                                      !.run = RunMet(v.steps, run),
                                      !.fault = FaultMet(v.steps, fault)]
            /\ pre' = fs
            /\ verified' = IF v.err # Nil THEN verified
                            ELSE IF verified.n = 0
                            THEN [id |-> v.id, n |-> 1, first |-> v.branch]
                            ELSE [verified EXCEPT !.n = IF @ < MaxStreak THEN @ + 1 ELSE @]
            /\ UNCHANGED <<generated, m, homedir, procs>>

\* Another party changes the storage directory or the file.
Tamper ==
    /\ fs' \in Worlds(m, homedir)
    /\ pre' = fs'
    /\ last' = NoCall
    /\ verified' = Unverified
    /\ UNCHANGED <<generated, m, homedir, procs>>

Next == CallGenerate \/ CallGetPath \/ CallSave \/ CallVerify \/ Tamper

Spec == Init /\ [][Next]_vars

(***************************************************************************)
(* IsValidSHA256 is a free function of its argument: it is called on its   *)
(* own, apart from the manager's methods.                                  *)
(***************************************************************************)

\* The bytes next to and inside the ranges IsValidSHA256 tests, upper-case
\* digits, white space, and a byte of a multi-byte character.
ProbeBytes == {0, 9, 10, 32, 47, 48, 57, 58, 64, 65, 70, 71, 96, 97, 102, 103, 195}

\* "0123456789abcdef" four times.
AllHex64 == Tup([i \in 1..IDLen |-> HexTable[((i - 1) % 16) + 1]])

\* The strings IsValidSHA256 is called with: the file contents, fingerprints
\* with one character added, removed or replaced, and strings of one byte.
ValidateArgs ==
    Contents
        \cup {[AllHex64 EXCEPT ![i] = c] : i \in {1, 32, IDLen}, c \in ProbeBytes}
        \cup {Repeat(c, IDLen) : c \in ProbeBytes}
        \cup {Repeat(c, n) : c \in {48, 102}, n \in {1, IDLen - 1, IDLen + 1, 2 * IDLen}}
        \cup {<<32>> \o Short63, Short63 \o <<32>>, AllHex64 \o <<10>>}

\* A caller holds a string s.
InitIsValid ==
    /\ m \in {NewManager(c) : c \in Configs}
    /\ homedir \in {h \in Homes : h.ok}
    /\ fs = Base
    /\ pre = fs
    /\ last \in {[NoCall EXCEPT !.arg = s] : s \in ValidateArgs}
    /\ verified = Unverified
    /\ procs = [p \in Procs |-> NoProc]
    /\ generated = NotGenerated

\* The caller calls IsValidSHA256(s).
CallIsValid ==
    /\ last.op = "none"
    /\ last' = [last EXCEPT !.op = "IsValid", !.valid = IsValidSHA256(last.arg),
                            !.steps = <<"validate">>]
    /\ UNCHANGED <<generated, m, homedir, fs, pre, verified, procs>>

NextIsValid == CallIsValid

SpecIsValid == InitIsValid /\ [][NextIsValid]_vars


\* The filesystems concurrent and repeated calls start on: the storage directory missing, or
\* present with the file missing, corrupt, valid or unreadable.
ProcWorlds(mgr, h) ==
    IF GetDeviceIDPath(mgr, h).err = Nil
    THEN LET p == GetDeviceIDPath(mgr, h).path
         IN  {[Base EXCEPT ![Dir(Dir(p))] = DirNode(uw)] : uw \in BOOLEAN}
                \cup {[Base EXCEPT ![Dir(p)] = DirNode(TRUE), ![p] = f] :
                        f \in {NoNode, FileNode(NotAHash, TRUE, TRUE),
                                FileNode(Upper64, TRUE, TRUE),
                                FileNode(IDOf(<<97, 98>>), TRUE, TRUE),
                                FileNode(NotAHash, FALSE, TRUE)}}
    ELSE {Base}

(***************************************************************************)
(* GenerateDeviceID called again and again, on managers of any             *)
(* configuration and whatever the identifier file holds.                   *)
(***************************************************************************)

\* A caller calls m.GenerateDeviceID(), the platform command giving run.
GenerateAgain ==
    \E run \in ProbeRuns :
        \E g \in {GenerateDeviceID(run)} :
            /\ last' = [NoCall EXCEPT !.op = "Generate", !.id = g.id, !.err = g.err,
                                      !.steps = g.steps, !.run = run]
            /\ generated' = IF g.err # Nil THEN generated
                            ELSE [generated EXCEPT ![run.out] =
                                    [ids |-> @.ids \cup {g.id},
                                     by |-> IF @.by = {} THEN {m} ELSE @.by]]
            /\ UNCHANGED <<m, homedir, fs, pre, verified, procs>>

\* The caller makes another manager with NewManager(config), whose identifier
\* file is in any state.
AnotherManager ==
    /\ m' \in {NewManager(c) : c \in Configs}
    /\ fs' \in ProcWorlds(m', homedir)
    /\ pre' = fs'
    /\ last' = NoCall
    /\ UNCHANGED <<homedir, verified, procs, generated>>

NextGenerate == GenerateAgain \/ AnotherManager

InitGenerate ==
    /\ m \in {NewManager(c) : c \in Configs}
    /\ homedir \in Homes
    /\ fs \in ProcWorlds(m, homedir)
    /\ pre = fs
    /\ last = NoCall
    /\ verified = Unverified
    /\ procs = [p \in Procs |-> NoProc]
    /\ generated = NotGenerated

SpecGenerate == InitGenerate /\ [][NextGenerate]_vars

(***************************************************************************)
(* Concurrent calls.  Nothing in the package locks the identifier file, so *)
(* the calls of several processes interleave at their system calls: the    *)
(* read, the probe, os.MkdirAll, the open with O_TRUNC and the write.      *)
(* pre keeps the filesystem the processes started on.                      *)
(***************************************************************************)

\* What the processes call: VerifyDeviceID() or SaveDeviceID(arg).
ProcCalls ==
    {[NoProc EXCEPT !.op = "Verify", !.pc = "start"]}
        \cup {[NoProc EXCEPT !.op = "Save", !.pc = "start", !.arg = a] :
                a \in {Zeros64, Abc}}

InitProcs ==
    /\ m \in {NewManager(c) : c \in Configs}
    /\ homedir \in Homes
    /\ fs \in ProcWorlds(m, homedir)
    /\ pre = fs
    /\ last = NoCall
    /\ verified = Unverified
    /\ procs \in [Procs -> ProcCalls]
    /\ generated = NotGenerated

\* The call of process q returns.
Return(q, id, err, branch) ==
    [q EXCEPT !.pc = "done", !.id = id, !.err = err, !.branch = branch]

\* An error of SaveDeviceID as the call of process q returns it.
SaveErr(q, err) ==
    IF q.op = "Verify" THEN Wrap("failed to save new device ID", err) ELSE err

\* SaveDeviceID(deviceID) in process q up to os.MkdirAll.
SaveEnter(q, deviceID, gp) ==
    IF ~IsValidSHA256(deviceID)
    THEN Return(q, <<>>, SaveErr(q, <<"invalid device ID format">>), q.branch)
    ELSE IF gp.err # Nil
    THEN Return(q, <<>>, SaveErr(q, Wrap("failed to get device ID path", gp.err)),
                q.branch)
    ELSE [q EXCEPT !.pc = "mkdir", !.data = deviceID]

\* VerifyDeviceID in process q after os.ReadFile(path).
ReadDone(q, rd) ==
    IF rd.err # Nil
    THEN IF IsNotExist(rd.err)
         THEN [q EXCEPT !.pc = "probe", !.branch = "NoFile"]
         ELSE Return(q, <<>>, Wrap("failed to read device ID", rd.err), "ReadError")
    ELSE IF ~IsValidSHA256(rd.data)
    THEN [q EXCEPT !.pc = "probe", !.branch = "FileCorrupt"]
    ELSE Return(q, rd.data, Nil, "FileValid")

\* VerifyDeviceID in process p: m.GetDeviceIDPath() and os.ReadFile(path).
ProcRead(p) ==
    /\ procs[p].pc = "start" /\ procs[p].op = "Verify"
    /\ \E gp \in {GetDeviceIDPath(m, homedir)} :
        procs' = [procs EXCEPT ![p] =
                    IF gp.err # Nil
                    THEN Return(procs[p], <<>>,
                                Wrap("failed to get device ID path", gp.err), "PathError")
                    ELSE ReadDone(procs[p], ReadFile(fs, gp.path))]
    /\ UNCHANGED <<generated, m, homedir, fs, pre, last, verified>>

\* VerifyDeviceID in process p: m.GenerateDeviceID(), and m.SaveDeviceID(newID)
\* up to os.MkdirAll.
ProcProbe(p) ==
    /\ procs[p].pc = "probe"
    /\ \E run \in ProbeRuns :
        \E g \in {GenerateDeviceID(run)} :
            procs' = [procs EXCEPT ![p] =
                        IF g.err # Nil
                        THEN Return([procs[p] EXCEPT !.run = run], <<>>,
                                    Wrap("failed to generate new device ID", g.err),
                                    procs[p].branch)
                        ELSE SaveEnter([procs[p] EXCEPT !.run = run], g.id,
                                       GetDeviceIDPath(m, homedir))]
    /\ UNCHANGED <<generated, m, homedir, fs, pre, last, verified>>

\* SaveDeviceID(arg) in process p up to os.MkdirAll.
ProcValidate(p) ==
    /\ procs[p].pc = "start" /\ procs[p].op = "Save"
    /\ procs' = [procs EXCEPT ![p] =
                    SaveEnter(procs[p], procs[p].arg, GetDeviceIDPath(m, homedir))]
    /\ UNCHANGED <<generated, m, homedir, fs, pre, last, verified>>

\* SaveDeviceID in process p: os.MkdirAll(dir, 0o700).
ProcMkdir(p) ==
    /\ procs[p].pc = "mkdir"
    /\ \E mk \in {MkdirAll(fs, Dir(GetDeviceIDPath(m, homedir).path))} :
        /\ fs' = mk.fs
        /\ procs' = [procs EXCEPT ![p] =
                        IF mk.err # Nil
                        THEN Return(procs[p], <<>>,
                                    SaveErr(procs[p],
                                            Wrap("failed to create directory", mk.err)),
                                    procs[p].branch)
                        ELSE [procs[p] EXCEPT !.pc = "open"]]
    /\ UNCHANGED <<generated, m, homedir, pre, last, verified>>

\* os.WriteFile in process p: the open, which creates or truncates the file.
ProcOpen(p) ==
    /\ procs[p].pc = "open"
    /\ \E o \in {OpenFile(fs, GetDeviceIDPath(m, homedir).path)} :
        /\ fs' = o.fs
        /\ procs' = [procs EXCEPT ![p] =
                        IF o.err # Nil
                        THEN Return(procs[p], <<>>,
                                    SaveErr(procs[p],
                                            Wrap("failed to write device ID", o.err)),
                                    procs[p].branch)
                        ELSE [procs[p] EXCEPT !.pc = "write"]]
    /\ UNCHANGED <<generated, m, homedir, pre, last, verified>>

\* os.WriteFile in process p: the write of the whole buffer and the close;
\* SaveDeviceID returns nil and VerifyDeviceID returns newID.
ProcWrite(p) ==
    /\ procs[p].pc = "write"
    /\ \E wr \in {FileWrite(fs, GetDeviceIDPath(m, homedir).path, procs[p].data,
                             Len(procs[p].data))} :
        /\ fs' = wr.fs
        /\ procs' = [procs EXCEPT ![p] =
                        Return(procs[p],
                               IF procs[p].op = "Verify" THEN procs[p].data ELSE <<>>,
                               Nil, procs[p].branch)]
    /\ UNCHANGED <<generated, m, homedir, pre, last, verified>>

NextProcs ==
    \E p \in Procs :
        \/ ProcRead(p)
        \/ ProcProbe(p)
        \/ ProcValidate(p)
        \/ ProcMkdir(p)
        \/ ProcOpen(p)
        \/ ProcWrite(p)

SpecProcs == InitProcs /\ [][NextProcs]_vars


(***************************************************************************)
(* The properties.  They speak of the latest call (last), of the           *)
(* filesystem it found (pre) and of the one it left (fs).                  *)
(***************************************************************************)

\* The characters 0-9 and a-f.
HexChars == (48..57) \cup (97..102)

\* A well-formed fingerprint: 64 characters, each in 0-9a-f.
WellFormed(s) == Len(s) = 64 /\ \A i \in 1..Len(s) : s[i] \in HexChars

IsPrefix(s, t) == Len(s) <= Len(t) /\ s = SubSeq(t, 1, Len(s))

PathKnown == GetDeviceIDPath(m, homedir).err = Nil

IDPath == GetDeviceIDPath(m, homedir).path

\* What reading the identifier file gave before the latest call, and gives now.
StoredBefore == ReadFile(pre, IDPath)
StoredNow == ReadFile(fs, IDPath)

\* The storage directory can be made and the file opened for writing.
CanStore(f) ==
    /\ MkdirAll(f, Dir(IDPath)).err = Nil
    /\ OpenFile(MkdirAll(f, Dir(IDPath)).fs, IDPath).err = Nil

\* The steps of a VerifyDeviceID call that regenerates, after its read.
RecoverySteps ==
    <<"probe", "hash", "validate", "path", "mkdir", "open", "write", "close">>

\* No probe run of the latest call failed and no write of it met a fault.
NothingFailed ==
    /\ Has(last.steps, "probe") => last.run.ok
    /\ last.fault = NoFault

ErrHas(msg) == \E i \in DOMAIN last.err : last.err[i] = msg

\* C1: when the read succeeds and the stored content is a well-formed
\* fingerprint, VerifyDeviceID returns exactly that content with no error, runs
\* no probe, no hash, no directory creation and no write, and leaves the
\* filesystem as it was -- whatever the probe would have given.
C1_FileValidReturnsStored ==
    (last.op = "Verify" /\ PathKnown /\ StoredBefore.err = Nil
        /\ WellFormed(StoredBefore.data))
    => /\ last.err = Nil
       /\ last.id = StoredBefore.data
       /\ last.branch = "FileValid"
       /\ last.steps = <<"path", "read", "validate">>
       /\ fs = pre

\* A VerifyDeviceID call has returned a stored fingerprint that no probe text
\* of this machine hashes to.
C1_Witness ==
    /\ last.op = "Verify" /\ last.branch = "FileValid" /\ last.err = Nil
    /\ last.id = Zeros64 /\ last.id \notin IDs
    /\ StoredBefore.data = Zeros64

\* C2: when the identifier file is absent (the storage directory may be missing
\* too), the probe succeeds and the filesystem lets the file be stored,
\* VerifyDeviceID probes, hashes, creates the directory, writes the file and
\* returns the digest of the probe text; afterwards the file holds exactly the
\* returned identifier.
C2_NoFileGeneratesAndStores ==
    (last.op = "Verify" /\ PathKnown /\ StoredBefore.err = <<"ENOENT">>
        /\ NothingFailed /\ CanStore(pre))
    => /\ last.err = Nil
       /\ last.branch = "NoFile"
       /\ last.id = IDOf(last.run.out)
       /\ last.steps = <<"path", "read">> \o RecoverySteps
       /\ Lookup(fs, Dir(IDPath)).kind = "dir"
       /\ StoredNow = [data |-> last.id, err |-> Nil]

\* A VerifyDeviceID call found no storage directory, made it and stored the
\* identifier it returned.
C2_Witness ==
    /\ last.op = "Verify" /\ last.branch = "NoFile" /\ last.err = Nil
    /\ Lookup(pre, Dir(IDPath)).kind = "none"
    /\ Lookup(fs, Dir(IDPath)).kind = "dir"
    /\ StoredNow.data = last.id /\ Len(last.id) = 64

\* C3: when the read succeeds but the content is not a well-formed fingerprint,
\* the probe succeeds and the filesystem lets the file be stored, VerifyDeviceID
\* takes the recovery path of the absent file: it returns the digest of the
\* probe text, a well-formed fingerprint, with no error, and the file holds
\* exactly that identifier afterwards.
C3_CorruptFileIsRegenerated ==
    (last.op = "Verify" /\ PathKnown /\ StoredBefore.err = Nil
        /\ ~WellFormed(StoredBefore.data)
        /\ NothingFailed /\ CanStore(pre))
    => /\ last.err = Nil
       /\ last.branch = "FileCorrupt"
       /\ last.id = IDOf(last.run.out)
       /\ WellFormed(last.id)
       /\ last.steps = <<"path", "read", "validate">> \o RecoverySteps
       /\ StoredNow = [data |-> last.id, err |-> Nil]

\* A VerifyDeviceID call found "not-a-hash" in the file and replaced it.
C3_Witness ==
    /\ last.op = "Verify" /\ last.branch = "FileCorrupt" /\ last.err = Nil
    /\ StoredBefore.data = NotAHash
    /\ StoredNow.data = last.id /\ WellFormed(last.id)

\* C4: when the read fails for another reason than the file being absent,
\* VerifyDeviceID returns an error and no identifier, runs no probe, creates no
\* directory, writes nothing and leaves the filesystem as it was.
C4_ReadErrorIsPropagated ==
    (last.op = "Verify" /\ PathKnown
        /\ StoredBefore.err # Nil /\ StoredBefore.err # <<"ENOENT">>)
    => /\ last.err = Wrap("failed to read device ID", StoredBefore.err)
       /\ last.id = <<>>
       /\ last.steps = <<"path", "read">>
       /\ fs = pre

\* A VerifyDeviceID call met a file it may not read.
C4_Witness ==
    /\ last.op = "Verify" /\ last.branch = "ReadError"
    /\ StoredBefore.err = <<"EACCES">>
    /\ Lookup(pre, IDPath).kind = "file"

\* C5: once a VerifyDeviceID call has returned an identifier, and until a
\* SaveDeviceID call or another party touches the file, every VerifyDeviceID
\* call takes the FileValid branch, returns that identifier and leaves the
\* filesystem as it is.
C5_VerifyIsStable ==
    [][(verified.n > 0 /\ last'.op = "Verify")
        => /\ last'.err = Nil
           /\ last'.id = verified.id
           /\ last'.branch = "FileValid"
           /\ fs' = fs
           /\ verified'.id = verified.id]_vars

\* A corrupt file was regenerated and two more VerifyDeviceID calls returned
\* the same identifier.
C5_Witness ==
    /\ verified.n >= 3 /\ verified.first = "FileCorrupt"
    /\ last.op = "Verify" /\ last.branch = "FileValid" /\ last.id = verified.id
    /\ StoredNow.data = verified.id

\* C6: SaveDeviceID with a value that is not a well-formed fingerprint returns
\* the invalid-format error before it resolves the path, and changes nothing
\* in the filesystem.
C6_SaveRejectsMalformed ==
    (last.op = "Save" /\ ~WellFormed(last.arg))
    => /\ last.err = <<"invalid device ID format">>
       /\ last.steps = <<"validate">>
       /\ fs = pre

\* SaveDeviceID("abc") was refused while the file held a fingerprint.
C6_Witness ==
    /\ last.op = "Save" /\ last.arg = Abc /\ last.err # Nil
    /\ PathKnown /\ StoredNow.data = Zeros64

\* C7: GenerateDeviceID and VerifyDeviceID return a well-formed fingerprint
\* when they return no error and the empty string when they return one, and
\* whatever is handed to the file write is a well-formed fingerprint.
C7_IdentifiersAreWellFormed ==
    /\ (last.op \in {"Generate", "Verify"} /\ last.err = Nil) => WellFormed(last.id)
    /\ (last.op \in {"Generate", "Verify"} /\ last.err # Nil) => last.id = <<>>
    /\ (last.op \in {"Save", "Verify"} /\ Has(last.steps, "open"))
            => WellFormed(last.wrote)

\* A VerifyDeviceID call found 64 upper-case hex digits in the file and
\* returned a well-formed fingerprint in their place.
C7_Witness ==
    /\ last.op = "Verify" /\ last.err = Nil
    /\ StoredBefore.data = Upper64
    /\ WellFormed(last.id) /\ last.wrote = last.id

\* C8 as stated: after a call that returns an error from the write step the
\* file has the content it had before or holds the complete new identifier.
C8_NeverHalfWritten ==
    (last.op \in {"Save", "Verify"} /\ ErrHas("failed to write device ID"))
    => \/ Lookup(fs, IDPath) = Lookup(pre, IDPath)
       \/ Lookup(fs, IDPath).data = last.wrote

\* C8 as amended: after a call that returns an error from the write step the
\* file has the content it had before or holds a prefix of the new identifier
\* (nothing, a proper prefix, or all of it); and a call whose directory creation
\* fails never opens the file and leaves it as it was.
C8_FailedWriteLeavesPrefix ==
    /\ (last.op \in {"Save", "Verify"} /\ ErrHas("failed to write device ID"))
        => \/ Lookup(fs, IDPath) = Lookup(pre, IDPath)
           \/ /\ Lookup(fs, IDPath).kind = "file"
              /\ IsPrefix(Lookup(fs, IDPath).data, last.wrote)
    /\ (last.op \in {"Save", "Verify"} /\ ErrHas("failed to create directory"))
        => /\ ~Has(last.steps, "open")
           /\ Lookup(fs, IDPath) = Lookup(pre, IDPath)

\* A failed write has left one byte of the new identifier where a fingerprint
\* was stored.
C8_Witness ==
    /\ last.op = "Verify" /\ ErrHas("failed to write device ID")
    /\ WellFormed(last.wrote)
    /\ Lookup(pre, IDPath).data = Upper64
    /\ Lookup(fs, IDPath).data = SubSeq(last.wrote, 1, 1)

\* C9: when VerifyDeviceID has to regenerate and the storage directory cannot
\* be created, it returns the directory-creation error and the empty string;
\* and it returns a regenerated identifier with no error only when the file
\* holds it.
C9_UncreatableDirIsAnError ==
    /\ (last.op = "Verify" /\ last.branch \in {"NoFile", "FileCorrupt"}
            /\ last.run.ok /\ MkdirAll(pre, Dir(IDPath)).err # Nil)
        => /\ last.err = <<"failed to save new device ID", "failed to create directory">>
                            \o MkdirAll(pre, Dir(IDPath)).err
           /\ last.id = <<>>
    /\ (last.op = "Verify" /\ last.branch \in {"NoFile", "FileCorrupt"}
            /\ last.err = Nil)
        => StoredNow = [data |-> last.id, err |-> Nil]

\* A VerifyDeviceID call found no file, generated an identifier and could not
\* create the storage directory for lack of permission.
C9_Witness ==
    /\ last.op = "Verify" /\ last.branch = "NoFile" /\ last.run.ok
    /\ MkdirAll(pre, Dir(IDPath)).err = <<"EACCES">>
    /\ last.err # Nil /\ last.id = <<>>
    /\ Has(last.steps, "hash")

\* The process p has run the probe: its call took a regenerating branch and
\* got past m.GenerateDeviceID().
Probed(p) ==
    /\ procs[p].branch \in {"NoFile", "FileCorrupt"}
    /\ procs[p].pc # "probe"

\* C10: when the processes all call VerifyDeviceID on a path whose file is
\* absent at the start, the probe gives each of them the same text and the
\* filesystem lets the file be stored, then under every interleaving of their
\* reads, probes, directory creations, truncating opens and writes every call
\* that has returned has returned the digest of that text with no error, and
\* once all have returned the file holds exactly that identifier.
C10_ConcurrentFirstRunConverges ==
    \A t \in ProbeTexts :
        (/\ \A p \in Procs : procs[p].op = "Verify"
         /\ PathKnown
         /\ StoredBefore.err = <<"ENOENT">>
         /\ CanStore(pre)
         /\ \A p \in Procs : Probed(p) => procs[p].run = [ok |-> TRUE, out |-> t])
        => /\ \A p \in Procs :
                procs[p].pc = "done"
                    => /\ procs[p].err = Nil
                       /\ procs[p].id = IDOf(t)
           /\ (\A p \in Procs : procs[p].pc = "done")
                    => StoredNow = [data |-> IDOf(t), err |-> Nil]

\* Two probe and hash cycles have raced from an absent file: one process found
\* no file, another found the file the first had just truncated, both wrote and
\* both returned the identifier the file holds.
C10_Witness ==
    /\ \A p \in Procs : procs[p].op = "Verify" /\ procs[p].pc = "done"
    /\ Lookup(pre, IDPath).kind = "none"
    /\ procs[1].branch = "NoFile" /\ procs[2].branch = "FileCorrupt"
    /\ procs[1].id = procs[2].id /\ WellFormed(procs[1].id)
    /\ StoredNow.data = procs[1].id

\* The orders the calls of the processes can be put in, one after the other.
Orders == {o \in [1..NProcs -> Procs] : \A i, j \in 1..NProcs : o[i] = o[j] => i = j}

\* The call of process q made alone on the filesystem f, the probe giving run.
CallAlone(q, f, run) ==
    IF q.op = "Verify"
    THEN [r \in {"id", "err", "fs"} |-> VerifyDeviceID(m, homedir, f, run, NoFault)[r]]
    ELSE [id |-> <<>>,
          err |-> SaveDeviceID(m, homedir, f, q.arg, NoFault).err,
          fs |-> SaveDeviceID(m, homedir, f, q.arg, NoFault).fs]

\* The filesystem after the first k calls of the order o, made one at a time
\* from the filesystem the processes started on.
RECURSIVE FsAfter(_, _, _)
FsAfter(o, run, k) ==
    IF k = 0 THEN pre
    ELSE CallAlone(procs[o[k]], FsAfter(o, run, k - 1), run).fs

\* The calls made one at a time in the order o return what the processes got
\* and leave the filesystem the processes left.
SameAsInOrder(o, run) ==
    /\ \A k \in 1..NProcs :
        \E r \in {CallAlone(procs[o[k]], FsAfter(o, run, k - 1), run)} :
            /\ r.id = procs[o[k]].id
            /\ r.err = procs[o[k]].err
    /\ FsAfter(o, run, NProcs) = fs

\* C11: the operations are thread-safe: whenever concurrent SaveDeviceID(x) and
\* VerifyDeviceID calls on the same path have all returned, the probe having
\* given the same text to every call that ran it, there is an order in which
\* the same calls, made one after the other, return the same values and leave
\* the same file.
C11_ConcurrentCallsSerialize ==
    \A t \in ProbeTexts :
        (/\ \A p \in Procs : procs[p].op # "none" /\ procs[p].pc = "done"
         /\ \A p \in Procs : Probed(p) => procs[p].run = [ok |-> TRUE, out |-> t])
        => \E o \in Orders : SameAsInOrder(o, [ok |-> TRUE, out |-> t])

\* C12: IsValidSHA256(s) is true if and only if s has exactly 64 characters and
\* each of them is in 0-9 or a-f: every other length is rejected, every
\* 64-character string with a character outside 0-9a-f is rejected, and every
\* 64-character string over 0-9a-f is accepted.
C12_IsValidIffWellFormed ==
    last.op = "IsValid"
    => /\ last.valid <=> (Len(last.arg) = 64 /\ \A i \in 1..Len(last.arg) :
                                                    last.arg[i] \in HexChars)
       /\ Len(last.arg) # 64 => ~last.valid
       /\ (\E i \in 1..Len(last.arg) : last.arg[i] \notin HexChars) => ~last.valid

\* IsValidSHA256 has rejected a fingerprint whose last character was replaced
\* by "g", having 64 characters of which only that one is outside 0-9a-f.
C12_Witness ==
    /\ last.op = "IsValid" /\ ~last.valid
    /\ Len(last.arg) = 64
    /\ last.arg[64] = 103
    /\ \A i \in 1..63 : last.arg[i] \in HexChars

\* The file name the manager was configured with, ".device_id" standing in
\* for the empty one.
NamesGiven == {IF c.IDFileName = "" THEN ".device_id" ELSE c.IDFileName : c \in Configs}

\* Where the identifier file is, by the configuration and the home directory.
ExpectedPath ==
    IF m.config.StorageDir # <<>>
    THEN m.config.StorageDir \o <<m.config.IDFileName>>
    ELSE homedir.dir \o <<".parity", m.config.IDFileName>>

\* C13: GetDeviceIDPath returns StorageDir joined with IDFileName when
\* StorageDir is not empty, and then neither asks for the home directory nor
\* fails; when StorageDir is empty it returns <home>/.parity joined with
\* IDFileName and fails if and only if the home directory cannot be determined.
\* The manager's IDFileName is never empty, ".device_id" having replaced the
\* empty one at construction.  SaveDeviceID writes the file at that path and
\* VerifyDeviceID reads the file at that path.
C13_PathResolution ==
    /\ m.config.IDFileName # "" /\ m.config.IDFileName \in NamesGiven
    /\ last.op = "GetPath"
        => /\ m.config.StorageDir # <<>>
                => /\ last.err = Nil
                   /\ last.path = m.config.StorageDir \o <<m.config.IDFileName>>
                   /\ ~Has(last.steps, "home")
           /\ m.config.StorageDir = <<>>
                => /\ last.err # Nil <=> ~homedir.ok
                   /\ last.err = Nil
                        => last.path = homedir.dir \o <<".parity", m.config.IDFileName>>
                   /\ last.err # Nil => last.path = <<>>
    /\ (last.op = "Save" /\ last.err = Nil)
        => /\ Lookup(fs, ExpectedPath).kind = "file"
           /\ Lookup(fs, ExpectedPath).data = last.arg
    /\ (last.op = "Verify" /\ last.branch = "FileValid")
        => last.id = Lookup(pre, ExpectedPath).data

\* GetDeviceIDPath has returned /tmp/custom/.device_id with no home directory
\* to be found: the manager was given a storage directory and no file name.
C13_Witness ==
    /\ last.op = "GetPath" /\ last.err = Nil
    /\ ~homedir.ok
    /\ last.path = <<"tmp", "custom", ".device_id">>

\* C14: the identifier GenerateDeviceID returns is a function of the raw probe
\* text only: over any number of calls, on managers of any configuration and
\* with any stored file, the calls that got the same text have returned one
\* and the same identifier, and calls that got texts differing in case or in a
\* trailing newline have returned different identifiers.
C14_GenerateIsDeterministic ==
    /\ \A t \in ProbeTexts : Cardinality(generated[t].ids) <= 1
    /\ \A t1, t2 \in ProbeTexts :
        t1 # t2 => generated[t1].ids \cap generated[t2].ids = {}
    /\ (last.op = "Generate" /\ last.err = Nil)
        => generated[last.run.out].ids = {last.id}

\* GenerateDeviceID has returned for "ab\n" an identifier it had returned
\* before on a manager of another configuration, and has been called for
\* "ab" and for "AB\n" too.
C14_Witness ==
    /\ last.op = "Generate" /\ last.err = Nil /\ last.run.out = <<97, 98, 10>>
    /\ generated[last.run.out].by # {} /\ m \notin generated[last.run.out].by
    /\ generated[last.run.out].ids = {last.id}
    /\ \A t \in ProbeTexts : generated[t].ids # {}

\* C15: when VerifyDeviceID finds the file absent or corrupt and the platform
\* probe fails, it returns an error that wraps the probe failure and the empty
\* string, creates no directory and writes no file: the filesystem stays as it
\* was, an absent file absent and a corrupt file corrupt.
C15_ProbeFailureIsFatal ==
    (/\ last.op = "Verify" /\ PathKnown
     /\ \/ StoredBefore.err = <<"ENOENT">>
        \/ StoredBefore.err = Nil /\ ~WellFormed(StoredBefore.data)
     /\ ~last.run.ok)
    => /\ last.err # Nil
       /\ ErrHas("failed to get system info")
       /\ last.err[Len(last.err)] = "exec"
       /\ last.id = <<>>
       /\ ~Has(last.steps, "mkdir") /\ ~Has(last.steps, "open")
       /\ ~Has(last.steps, "write")
       /\ fs = pre

\* VerifyDeviceID has found "not-a-hash" in the file, the probe has failed,
\* and the file still holds "not-a-hash".
C15_Witness ==
    /\ last.op = "Verify" /\ last.branch = "FileCorrupt"
    /\ Has(last.steps, "probe") /\ ~last.run.ok
    /\ last.err # Nil
    /\ StoredBefore.data = NotAHash /\ StoredNow.data = NotAHash

\* How many times the latest call took the step x.
Count(x) == Cardinality({i \in DOMAIN last.steps : last.steps[i] = x})

LastStep == last.steps[Len(last.steps)]

\* C16: within one GenerateDeviceID, SaveDeviceID or VerifyDeviceID call the
\* probe is run, the file read, the directory created and the file written at
\* most once each; a step that fails is the last step of the call, which then
\* returns an error, and the error names that step: path resolution, read,
\* probing, validation, directory creation or write.
C16_NoInternalRetry ==
    last.op \in {"Generate", "Save", "Verify"}
    => /\ \A x \in {"probe", "read", "mkdir", "open", "write"} : Count(x) <= 1
       /\ (Has(last.steps, "path") /\ ~PathKnown)
            => last.err # Nil /\ LastStep = "path"
       /\ (Has(last.steps, "read") /\ StoredBefore.err \notin {Nil, <<"ENOENT">>})
            => last.err # Nil /\ LastStep = "read"
       /\ (Has(last.steps, "probe") /\ ~last.run.ok)
            => last.err # Nil /\ LastStep = "probe"
       /\ (Has(last.steps, "mkdir") /\ MkdirAll(pre, Dir(IDPath)).err # Nil)
            => last.err # Nil /\ LastStep = "mkdir"
       /\ (Has(last.steps, "open")
                /\ (last.fault.at = "open"
                        \/ OpenFile(MkdirAll(pre, Dir(IDPath)).fs, IDPath).err # Nil))
            => last.err # Nil /\ LastStep = "open"
       /\ (Has(last.steps, "write") /\ last.fault.at \in {"write", "close"})
            => last.err # Nil /\ LastStep = "close"
       /\ last.err # Nil
            => \/ ErrHas("failed to get user home directory") /\ LastStep = "path"
               \/ ErrHas("failed to read device ID") /\ LastStep = "read"
               \/ ErrHas("failed to get system info") /\ LastStep = "probe"
               \/ ErrHas("invalid device ID format") /\ LastStep = "validate"
               \/ ErrHas("failed to create directory") /\ LastStep = "mkdir"
               \/ ErrHas("failed to write device ID") /\ LastStep \in {"open", "close"}

\* VerifyDeviceID has read, probed and hashed once each, has failed to create
\* the directory, and has returned the directory-creation error at once.
C16_Witness ==
    /\ last.op = "Verify" /\ ErrHas("failed to create directory")
    /\ last.steps = <<"path", "read", "probe", "hash", "validate", "path", "mkdir">>

\* The filesystem operations of the latest call: file reads, directory
\* creations and file writes.
FsOps == Count("read") + Count("mkdir") + Count("open")

\* C17 as stated: every public operation runs the platform command at most
\* once and performs at most two filesystem operations, counted among directory
\* creation, file read and file write, on every path.
C17_AtMostTwoFsOps ==
    last.op \in {"Generate", "GetPath", "Save", "Verify"}
    => Count("probe") <= 1 /\ FsOps <= 2

\* C17 as amended: every public operation runs the platform command at most
\* once and performs at most three filesystem operations; VerifyDeviceID on the
\* NoFile and FileCorrupt paths performs up to three, the read, the directory
\* creation and the write, and every other call at most two.
C17_AtMostThreeFsOps ==
    last.op \in {"Generate", "GetPath", "Save", "Verify"}
    => /\ Count("probe") <= 1
       /\ FsOps <= 3
       /\ Count("read") <= 1 /\ Count("mkdir") <= 1 /\ Count("open") <= 1
       /\ ~(last.op = "Verify" /\ last.branch \in {"NoFile", "FileCorrupt"})
            => FsOps <= 2

\* VerifyDeviceID has found no file and has read, created the directory and
\* written the file: three filesystem operations and one run of the command.
C17_Witness ==
    /\ last.op = "Verify" /\ last.branch = "NoFile" /\ last.err = Nil
    /\ Count("probe") = 1 /\ FsOps = 3

\* C18: for every well-formed x, after SaveDeviceID(x) has returned nil the
\* file holds exactly x, whatever it held before, and the next VerifyDeviceID
\* returns x with no error, without probing and without writing.
C18_SaveThenVerify ==
    [][(last.op = "Save" /\ last.err = Nil /\ WellFormed(last.arg))
        => /\ Lookup(fs, IDPath).kind = "file"
           /\ Lookup(fs, IDPath).data = last.arg
           /\ last'.op = "Verify"
                => /\ last'.err = Nil
                   /\ last'.id = last.arg
                   /\ last'.steps = <<"path", "read", "validate">>
                   /\ fs' = fs]_vars

\* A well-formed fingerprint followed by one newline or blank.
Trailed(s) ==
    /\ Len(s) = 65
    /\ WellFormed(SubSeq(s, 1, 64))
    /\ s[65] \in {9, 10, 13, 32}

\* C19: VerifyDeviceID validates the raw content of the file: a well-formed
\* fingerprint followed by a newline or a blank is classified FileCorrupt, and
\* when the call succeeds the machine-generated identifier has replaced it in
\* the file and is returned in its place, never the stored text.  The manager
\* writes the identifier with nothing after it, so the next VerifyDeviceID that
\* reads a file the manager wrote classifies it FileValid.
C19_NoNormalizationOnRead ==
    [][/\ (last.op = "Verify" /\ PathKnown /\ StoredBefore.err = Nil
                /\ Trailed(StoredBefore.data))
            => /\ last.branch = "FileCorrupt"
               /\ last.id # StoredBefore.data
               /\ last.err = Nil
                    => /\ last.id = IDOf(last.run.out)
                       /\ StoredNow.data = last.id
               /\ (NothingFailed /\ CanStore(pre)) => last.err = Nil
       /\ (last.op \in {"Save", "Verify"} /\ Has(last.steps, "write") /\ last.err = Nil)
            => /\ Lookup(fs, IDPath).data = last.wrote
               /\ WellFormed(last.wrote)
               /\ (last'.op = "Verify" /\ ReadFile(fs, IDPath).err = Nil)
                    => /\ last'.branch = "FileValid"
                       /\ last'.id = last.wrote]_vars

\* VerifyDeviceID has found the digest of "ab\n" followed by a newline in the
\* file and has replaced it by the digest of "ab", the probe text.
C19_Witness ==
    /\ last.op = "Verify" /\ last.branch = "FileCorrupt" /\ last.err = Nil
    /\ StoredBefore.data = WithNewline(IDOf(<<97, 98, 10>>))
    /\ last.run.out = <<97, 98>>
    /\ StoredNow.data = IDOf(<<97, 98>>) /\ last.id = IDOf(<<97, 98>>)

=============================================================================
